---------------------------- MODULE Spec2Model ----------------------------
(***************************************************************************)
(* Model of hachingRewrite.c (MP3 decode into a growable PCM buffer, left  *)
(* channel extraction, hop loop with one FFT per hop) and of bluesteinFFT  *)
(* from hachingRewriteNoLibrary.c.                                         *)
(*                                                                         *)
(* The decoder (mpg123), the allocator and the FFT library (fftw) are      *)
(* external: every call into them returns one of the results its interface *)
(* allows, chosen nondeterministically.                                    *)
(*                                                                         *)
(* C arrays are 0-based; the sequences below are 1-based, so C index k is  *)
(* element k + 1.                                                          *)
(***************************************************************************)
EXTENDS Integers, Sequences, FiniteSets

(***************************************************************************)
(* Bounds of the model.                                                    *)
(***************************************************************************)
\* mpg123_getformat reports a rate in 1..MaxRate
MaxRate == 2
\* mpg123_getformat reports 1..MaxChannels channels
MaxChannels == 2
\* mpg123_outblock reports a block of at most MaxBlock samples
MaxBlock == 5
\* the decoder delivers at most MaxTotal samples over the whole file
MaxTotal == 14
\* the hop length is drawn from 1..MaxHop
MaxHop == 3
\* bluesteinFFT is applied to inputs of 1..MaxLen elements
MaxLen == 9

\* sizeof(short)
SizeofShort == 2

\* content of memory that was allocated and never written, or lost
Undef == 0

VARIABLES
    pc,                \* position in main / extract_mp3_samples
    argc,              \* main's argc
    sess,              \* the decoder session: library, handle, block buffer
    decodeFailed,      \* a decoder call has reported a failure
    rate, channels,    \* format returned by mpg123_getformat
    buffer_size,       \* mpg123_outblock(mh), in bytes
    capacity,          \* allocated size of audio_data->samples, in samples
    total_samples,     \* samples appended so far
    samples,           \* audio_data->samples; elements past capacity are the
                       \* memory behind the allocation that a write overran
    num_samples,       \* audio_data->num_samples
    delivered,         \* samples the decoder has handed back so far
    ret,               \* return value of extract_mp3_samples
    exitCode,          \* exit code of the process
    leftChanelSamples, \* the mono sequence
    i,                 \* loop variable of main's loops
    hopsize,
    in,                \* FFT input
    out,               \* FFT output
    freqArr,           \* magnitudes
    hops,              \* the windows handed to fftw_execute, in order
    writes,            \* every magnitude write done: hop, bin, cell
    acc,               \* the array accesses of the last loop iteration
    bpc, bufflen, k, m, chirp, A, B   \* bluesteinFFT

vars == <<pc, argc, sess, decodeFailed, rate, channels, buffer_size, capacity,
          total_samples, samples, num_samples, delivered, ret, exitCode,
          leftChanelSamples, i, hopsize, in, out, freqArr, hops, writes, acc,
          bpc, bufflen, k, m, chirp, A, B>>

extractVars == <<rate, channels, buffer_size, capacity, total_samples,
                 samples, num_samples, delivered>>
analysisVars == <<leftChanelSamples, i, hopsize, in, out, freqArr, hops,
                  writes, acc>>
bluesteinVars == <<bpc, bufflen, k, m, chirp, A, B>>

Max(a, b) == IF a >= b THEN a ELSE b

(***************************************************************************)
(* The decoder session.  lib is the library (mpg123_init / mpg123_exit),   *)
(* mh the handle, buffer the read block; the counters record teardown.     *)
(***************************************************************************)
NoSession ==
    [lib |-> "uninit", mh |-> "null", buffer |-> "none",
     exits |-> 0, deletes |-> 0, closes |-> 0, frees |-> 0,
     opened |-> FALSE, deletedOpen |-> FALSE, late |-> FALSE]

\* One teardown call applied to the session.  A call is late when it is
\* made after mpg123_exit, or on a handle that is already deleted.
Do(op, s) ==
    CASE op = "free"   -> [s EXCEPT !.buffer = "freed", !.frees = @ + 1]
      [] op = "close"  -> [s EXCEPT !.mh = "closed", !.closes = @ + 1,
                                    !.late = @ \/ s.lib = "exited"
                                               \/ s.mh = "deleted"]
      [] op = "delete" -> [s EXCEPT !.mh = "deleted", !.deletes = @ + 1,
                                    !.deletedOpen = @ \/ s.mh = "open",
                                    !.late = @ \/ s.lib = "exited"
                                               \/ s.mh = "deleted"]
      [] op = "exit"   -> [s EXCEPT !.lib = "exited", !.exits = @ + 1,
                                    !.late = @ \/ s.lib = "exited"]

RECURSIVE DoAll(_, _)
DoAll(ops, s) ==
    IF ops = <<>> THEN s ELSE DoAll(Tail(ops), Do(Head(ops), s))

\* A decoder call on the live session (mpg123_new, _open, _getformat,
\* _format, _outblock, _read): late when the library is already torn down.
Use(s) == [s EXCEPT !.late = @ \/ s.lib = "exited" \/ s.mh = "deleted"]

\* The teardown of each return path of extract_mp3_samples.
CleanupNewFailed == <<"exit">>
CleanupOpenFailed == <<"delete", "exit">>
\* (mutant: the handle is deleted without being closed)
CleanupFormatFailedNoClose == <<"delete", "exit">>
CleanupFormatFailed == <<"close", "delete", "exit">>
CleanupBufferFailed == <<"close", "delete", "exit">>
CleanupSamplesFailed == <<"free", "close", "delete", "exit">>
CleanupReallocFailed == <<"free", "close", "delete", "exit">>
CleanupDone == <<"free", "close", "delete", "exit">>

\* return -1 after the given teardown
Fail(cleanup) ==
    /\ sess' = DoAll(cleanup, sess)
    /\ ret' = -1
    /\ pc' = "returned"

(***************************************************************************)
(* The PCM buffer.                                                         *)
(***************************************************************************)
\* The block a read delivers: the decoder's samples are numbered in stream
\* order, so the block delivered after d samples holds d+1 .. d+n.
Block(d, n) == [j \in 1..n |-> d + j]

\* size_t capacity = rate * channels * 2
InitialCapacity(r, c) == r * c * 2

\* if (total_samples + samples_in_buffer > capacity)
NeedsGrowth(total, n, cap) == total + n > cap

\* capacity *= 2
Grow(cap) == cap * 2

\* realloc(audio_data->samples, capacity * sizeof(short)) succeeding.  The
\* first oldcap elements are kept.  Memory behind the old allocation that
\* earlier writes overran is kept when the block grows in place and is not
\* copied when the block moves.
Realloc(s, oldcap, newcap, inPlace) ==
    [j \in 1..(IF inPlace THEN Max(Len(s), newcap) ELSE newcap) |->
        IF j <= oldcap \/ (inPlace /\ j <= Len(s)) THEN s[j] ELSE Undef]

\* for (i = 0; i < samples_in_buffer; i++)
\*     audio_data->samples[total_samples + i] = samples[i];
\* A write at an index >= capacity lands behind the allocation.
CopyBlock(s, total, blk) ==
    [j \in 1..Max(Len(s), total + Len(blk)) |->
        IF j > total /\ j <= total + Len(blk) THEN blk[j - total]
        ELSE IF j <= Len(s) THEN s[j] ELSE Undef]


(***************************************************************************)
(* Helpers of main's analysis stage.                                       *)
(***************************************************************************)
\* element idx of a C array; a read outside the sequence yields no value
ReadAt(s, idx) == IF idx >= 0 /\ idx < Len(s) THEN s[idx + 1] ELSE Undef

\* malloc(n * sizeof ...): n elements, never written
Alloc(n) == [j \in 1..n |-> Undef]

\* length of the mono sequence: audio_data.num_samples / 2
MonoLen(n) == n \div 2

\* (mutant: i <= audio_data.num_samples / 2)
LeftGuardInclusive(idx, n) == idx <= n \div 2
\* for (int i = 0; i < audio_data.num_samples / 2; i++)
LeftGuard(idx, n) == idx < MonoLen(n)

\* audio_data.samples[i * 2]
LeftIndex(idx) == idx * 2

\* (mutant: i < audio_data.num_samples / 2, a last partial window is taken)
HopGuardPartial(idx, h, n) == idx < n \div 2
\* for (int i = 0; i + hopsize <= audio_data.num_samples / 2; i += hopsize)
HopGuard(idx, h, n) == idx + h <= MonoLen(n)

\* i += hopsize
HopNext(idx, h) == idx + h

\* for (int j = 0; j < hopsize / 2 + 1; j++)
Bins(h) == h \div 2 + 1

\* (mutant: freqArr[j], every hop writes the same cells)
FreqIndexFlat(idx, j) == j
\* freqArr[i + j]
FreqIndex(idx, j) == idx + j

\* in[j] = leftChanelSamples[i + j], j in [0, hopsize)
Window(left, idx, h) == [j \in 1..h |-> ReadAt(left, idx + j - 1)]

\* fftw_execute(plan): out[j] is bin j of the transform of in.  The transform
\* is the library's; a bin is kept as the pair of its input and its index.
UndefBin == [win |-> <<>>, bin |-> -1]
Execute(w, h) == [j \in 1..Bins(h) |-> [win |-> w, bin |-> j - 1]]

\* sqrt(out[j][0] * out[j][0] + out[j][1] * out[j][1])
Magnitude(c) == [abs |-> c]

\* for (j = 0; j < hopsize / 2 + 1; j++) freqArr[i + j] = magnitude of out[j];
\* the writes happen in order of j, so the last write to a cell stays.
WriteMags(f, idx, o, h) ==
    [c \in 1..Len(f) |->
        LET js == {j \in 0..(Bins(h) - 1) : FreqIndex(idx, j) = c - 1}
        IN  IF js = {} THEN f[c]
            ELSE Magnitude(o[(CHOOSE j \in js : \A j2 \in js : j2 <= j) + 1])]

(***************************************************************************)
(* main and extract_mp3_samples, hachingRewrite.c                          *)
(***************************************************************************)
Init ==
    /\ pc = "main"
    /\ argc \in 1..3
    /\ sess = NoSession
    /\ decodeFailed = FALSE
    /\ rate = 0 /\ channels = 0 /\ buffer_size = 0 /\ capacity = 0
    /\ total_samples = 0 /\ samples = <<>> /\ num_samples = 0
    /\ delivered = 0
    /\ ret = 0 /\ exitCode = -1
    /\ leftChanelSamples = <<>> /\ i = 0 /\ hopsize = 0
    /\ in = <<>> /\ out = <<>> /\ freqArr = <<>>
    /\ hops = <<>> /\ writes = {} /\ acc = {}
    /\ bpc = "idle" /\ bufflen = 0 /\ k = 0 /\ m = 0
    /\ chirp = <<>> /\ A = <<>> /\ B = <<>>

\* if (argc != 2) return 1;
MainArgs ==
    /\ pc = "main"
    /\ IF argc # 2
         THEN pc' = "exit" /\ exitCode' = 1
         ELSE pc' = "init" /\ UNCHANGED exitCode
    /\ UNCHANGED <<argc, sess, decodeFailed, ret>>
    /\ UNCHANGED <<extractVars, analysisVars, bluesteinVars>>

\* mpg123_init()
MpgInit ==
    /\ pc = "init"
    /\ \E ok \in BOOLEAN :
        IF ok
          THEN /\ sess' = [sess EXCEPT !.lib = "ready"]
               /\ pc' = "new"
               /\ UNCHANGED <<ret, decodeFailed>>
          ELSE /\ decodeFailed' = TRUE
               /\ ret' = -1
               /\ pc' = "returned"
               /\ UNCHANGED sess
    /\ UNCHANGED <<argc, exitCode>>
    /\ UNCHANGED <<extractVars, analysisVars, bluesteinVars>>

\* mh = mpg123_new(NULL, &err)
MpgNew ==
    /\ pc = "new"
    /\ \E ok \in BOOLEAN :
        IF ok
          THEN /\ sess' = [Use(sess) EXCEPT !.mh = "new"]
               /\ pc' = "open"
               /\ UNCHANGED <<ret, decodeFailed>>
          ELSE /\ decodeFailed' = TRUE
               /\ Fail(CleanupNewFailed)
    /\ UNCHANGED <<argc, exitCode>>
    /\ UNCHANGED <<extractVars, analysisVars, bluesteinVars>>

\* mpg123_open(mh, filename)
MpgOpen ==
    /\ pc = "open"
    /\ \E ok \in BOOLEAN :
        IF ok
          THEN /\ sess' = [Use(sess) EXCEPT !.mh = "open", !.opened = TRUE]
               /\ pc' = "getformat"
               /\ UNCHANGED <<ret, decodeFailed>>
          ELSE /\ decodeFailed' = TRUE
               /\ Fail(CleanupOpenFailed)
    /\ UNCHANGED <<argc, exitCode>>
    /\ UNCHANGED <<extractVars, analysisVars, bluesteinVars>>

\* mpg123_getformat(mh, &rate, &channels, &encoding)
MpgGetFormat ==
    /\ pc = "getformat"
    /\ \E ok \in BOOLEAN :
        IF ok
          THEN /\ \E r \in 1..MaxRate, c \in 1..MaxChannels :
                    rate' = r /\ channels' = c
               /\ sess' = Use(sess)
               /\ pc' = "outblock"
               /\ UNCHANGED <<ret, decodeFailed>>
          ELSE /\ decodeFailed' = TRUE
               /\ Fail(CleanupFormatFailed)
               /\ UNCHANGED <<rate, channels>>
    /\ UNCHANGED <<argc, exitCode, buffer_size, capacity, total_samples,
                   samples, num_samples, delivered>>
    /\ UNCHANGED <<analysisVars, bluesteinVars>>

\* mpg123_format_none, mpg123_format, buffer_size = mpg123_outblock(mh),
\* buffer = malloc(buffer_size)
SetupBuffer ==
    /\ pc = "outblock"
    /\ \E n \in 1..MaxBlock : buffer_size' = n * SizeofShort
    /\ \E ok \in BOOLEAN :
        IF ok
          THEN /\ sess' = [Use(sess) EXCEPT !.buffer = "allocated"]
               /\ pc' = "alloc"
               /\ UNCHANGED ret
          ELSE Fail(CleanupBufferFailed)
    /\ UNCHANGED <<argc, exitCode, decodeFailed, rate, channels, capacity,
                   total_samples, samples, num_samples, delivered>>
    /\ UNCHANGED <<analysisVars, bluesteinVars>>

\* audio_data initialised; capacity = rate * channels * 2;
\* audio_data->samples = malloc(capacity * sizeof(short))
AllocSamples ==
    /\ pc = "alloc"
    /\ num_samples' = 0
    /\ total_samples' = 0
    /\ capacity' = InitialCapacity(rate, channels)
    /\ \E ok \in BOOLEAN :
        IF ok
          THEN /\ samples' = Alloc(capacity')
               /\ pc' = "read"
               /\ UNCHANGED <<ret, sess>>
          ELSE /\ samples' = <<>>
               /\ Fail(CleanupSamplesFailed)
    /\ UNCHANGED <<argc, exitCode, decodeFailed, rate, channels, buffer_size,
                   delivered>>
    /\ UNCHANGED <<analysisVars, bluesteinVars>>

\* One iteration of the read loop: mpg123_read returns MPG123_OK with done
\* bytes, the buffer is grown when needed and the block is copied in.
\* A copy that runs past the allocation, or any step made after one did, may
\* also end the process.
ReadOk ==
    /\ pc = "read"
    /\ \E n \in 0..(buffer_size \div SizeofShort) :
        /\ delivered + n <= MaxTotal
        /\ LET done == n * SizeofShort
               samples_in_buffer == done \div SizeofShort
               blk == Block(delivered, samples_in_buffer)
               grow == NeedsGrowth(total_samples, samples_in_buffer, capacity)
               newcap == IF grow THEN Grow(capacity) ELSE capacity
               overrun == total_samples + samples_in_buffer > newcap
           IN  /\ delivered' = delivered + n
               /\ capacity' = newcap
               /\ \E outcome \in {"kept", "inplace", "moved", "nomem", "crash"} :
                    /\ outcome = "kept" <=> ~grow
                    /\ outcome = "crash" =>
                           overrun \/ total_samples > capacity
                    /\ IF outcome = "nomem"
                         THEN /\ samples' = <<>>
                              /\ sess' = DoAll(CleanupReallocFailed, Use(sess))
                              /\ ret' = -1
                              /\ pc' = "returned"
                              /\ UNCHANGED total_samples
                         ELSE /\ samples' =
                                   CopyBlock(IF grow
                                               THEN Realloc(samples, capacity,
                                                     newcap, outcome = "inplace")
                                               ELSE samples,
                                             total_samples, blk)
                              /\ total_samples' =
                                   total_samples + samples_in_buffer
                              /\ sess' = Use(sess)
                              /\ pc' = IF outcome = "crash" THEN "crashed"
                                       ELSE "read"
                              /\ UNCHANGED ret
    /\ UNCHANGED <<argc, exitCode, decodeFailed, rate, channels, buffer_size,
                   num_samples>>
    /\ UNCHANGED <<analysisVars, bluesteinVars>>

\* mpg123_read returns something other than MPG123_OK (MPG123_DONE at the end
\* of the stream, or an error), possibly with decoded bytes in the block:
\* the loop ends, num_samples = total_samples, teardown, return 0.
ReadEnd ==
    /\ pc = "read"
    /\ \E status \in {"MPG123_DONE", "MPG123_ERR"},
          n \in 0..(buffer_size \div SizeofShort) :
        /\ delivered + n <= MaxTotal
        /\ delivered' = delivered + n
        /\ decodeFailed' = (decodeFailed \/ status = "MPG123_ERR")
    /\ num_samples' = total_samples
    /\ sess' = DoAll(CleanupDone, Use(sess))
    /\ ret' = 0
    /\ pc' = "returned"
    /\ UNCHANGED <<argc, exitCode, rate, channels, buffer_size, capacity,
                   total_samples, samples>>
    /\ UNCHANGED <<analysisVars, bluesteinVars>>

\* if (extract_mp3_samples(argv[1], &audio_data) != 0) return 1;
\* leftChanelSamples = malloc(num_samples / 2 * sizeof(double))
MainExtracted ==
    /\ pc = "returned"
    /\ IF ret # 0
         THEN /\ pc' = "exit" /\ exitCode' = 1
              /\ UNCHANGED <<leftChanelSamples, i>>
         ELSE \E ok \in BOOLEAN :
                IF ok
                  THEN /\ leftChanelSamples' = Alloc(MonoLen(num_samples))
                       /\ i' = 0
                       /\ pc' = "left"
                       /\ UNCHANGED exitCode
                  ELSE /\ pc' = "exit" /\ exitCode' = 1
                       /\ UNCHANGED <<leftChanelSamples, i>>
    /\ UNCHANGED <<argc, sess, decodeFailed, ret, extractVars>>
    /\ UNCHANGED <<hopsize, in, out, freqArr, hops, writes, acc>>
    /\ UNCHANGED bluesteinVars

\* one iteration of: leftChanelSamples[i] = audio_data.samples[i * 2]
LeftStep ==
    /\ pc = "left"
    /\ LeftGuard(i, num_samples)
    /\ leftChanelSamples' =
         [j \in 1..Len(leftChanelSamples) |->
            IF j = i + 1 THEN ReadAt(samples, LeftIndex(i))
            ELSE leftChanelSamples[j]]
    /\ acc' = {[arr |-> "samples", idx |-> LeftIndex(i)],
               [arr |-> "leftChanelSamples", idx |-> i]}
    /\ i' = i + 1
    /\ UNCHANGED <<pc, argc, sess, decodeFailed, ret, exitCode, extractVars>>
    /\ UNCHANGED <<hopsize, in, out, freqArr, hops, writes>>
    /\ UNCHANGED bluesteinVars

\* the extraction loop ends; hopsize is set, in, freqArr, out are allocated
\* and the plan is made (any of the allocations may fail: exit(EXIT_FAILURE)).
\* The source's hopsize is 159840; here it is drawn from 1..MaxHop.  The
\* source allocates freqArr with alloc(..), taken to be malloc.
HopSetup ==
    /\ pc = "left"
    /\ ~LeftGuard(i, num_samples)
    /\ \E ok \in BOOLEAN :
        IF ok
          THEN /\ \E h \in 1..MaxHop : hopsize' = h
               /\ in' = Alloc(hopsize')
               /\ freqArr' = [j \in 1..MonoLen(num_samples) |->
                                 Magnitude(UndefBin)]
               /\ out' = [j \in 1..Bins(hopsize') |-> UndefBin]
               /\ i' = 0
               /\ acc' = {}
               /\ pc' = "hop"
               /\ UNCHANGED exitCode
          ELSE /\ pc' = "exit" /\ exitCode' = 1
               /\ UNCHANGED <<hopsize, in, freqArr, out, i, acc>>
    /\ UNCHANGED <<argc, sess, decodeFailed, ret, extractVars>>
    /\ UNCHANGED <<leftChanelSamples, hops, writes>>
    /\ UNCHANGED bluesteinVars

\* one iteration of the hop loop: copy the window, transform, write the
\* magnitudes
HopStep ==
    /\ pc = "hop"
    /\ HopGuard(i, hopsize, num_samples)
    /\ in' = Window(leftChanelSamples, i, hopsize)
    /\ out' = Execute(in', hopsize)
    /\ freqArr' = WriteMags(freqArr, i, out', hopsize)
    /\ hops' = Append(hops, in')
    /\ writes' = writes \cup
         {[hop |-> Len(hops), bin |-> j, cell |-> FreqIndex(i, j)] :
            j \in 0..(Bins(hopsize) - 1)}
    /\ acc' = {[arr |-> "leftChanelSamples", idx |-> i + j] :
                  j \in 0..(hopsize - 1)}
              \cup {[arr |-> "in", idx |-> j] : j \in 0..(hopsize - 1)}
              \cup {[arr |-> "out", idx |-> j] : j \in 0..(Bins(hopsize) - 1)}
              \cup {[arr |-> "freqArr", idx |-> FreqIndex(i, j)] :
                      j \in 0..(Bins(hopsize) - 1)}
    /\ i' = HopNext(i, hopsize)
    /\ UNCHANGED <<pc, argc, sess, decodeFailed, ret, exitCode, extractVars>>
    /\ UNCHANGED <<leftChanelSamples, hopsize>>
    /\ UNCHANGED bluesteinVars

\* the hop loop ends; elapsed time printed, buffers freed, return 0
MainDone ==
    /\ pc = "hop"
    /\ ~HopGuard(i, hopsize, num_samples)
    /\ pc' = "exit"
    /\ exitCode' = 0
    /\ UNCHANGED <<argc, sess, decodeFailed, ret, extractVars>>
    /\ UNCHANGED <<analysisVars, bluesteinVars>>

Next ==
    \/ MainArgs
    \/ MpgInit
    \/ MpgNew
    \/ MpgOpen
    \/ MpgGetFormat
    \/ SetupBuffer
    \/ AllocSamples
    \/ ReadOk
    \/ ReadEnd
    \/ MainExtracted
    \/ LeftStep
    \/ HopSetup
    \/ HopStep
    \/ MainDone

Spec == Init /\ [][Next]_vars

(***************************************************************************)
(* bluesteinFFT, hachingRewriteNoLibrary.c.  A Complex is kept in polar    *)
(* form: amp is its length and num its angle in units of PI / bufflen, so  *)
(* fromAngle(1, PI * k * k / bufflen) is [amp |-> 1, num |-> k * k].       *)
(***************************************************************************)
\* memset(.., 0, ..)
Zero == [amp |-> 0, num |-> 0]

\* fromAngle(amplitude, angle), the angle given as num * PI / bufflen
FromAngle(amplitude, num) == [amp |-> amplitude, num |-> num]

\* mul(a, b): lengths multiply, angles add
Mul(a, b) ==
    IF a.amp = 0 \/ b.amp = 0 THEN Zero
    ELSE [amp |-> a.amp * b.amp, num |-> a.num + b.num]

\* (Complex){B[k].re, -B[k].im}
Conj(a) == [amp |-> a.amp, num |-> -a.num]

\* buff[k]: the input, element k a real of length k + 2
Buff(idx) == [amp |-> idx + 2, num |-> 0]

RECURSIVE Pow2(_)
Pow2(e) == IF e = 0 THEN 1 ELSE 2 * Pow2(e - 1)

\* ceil(log2(n)) for n >= 1: the least e with 2^e >= n
RECURSIVE CeilLog2From(_, _)
CeilLog2From(n, e) == IF Pow2(e) >= n THEN e ELSE CeilLog2From(n, e + 1)
\* (mutant: floor(log2(n)))
FloorLog2(n) ==
    IF Pow2(CeilLog2From(n, 0)) = n THEN CeilLog2From(n, 0)
    ELSE CeilLog2From(n, 0) - 1
CeilLog2(n) == CeilLog2From(n, 0)

\* double nextPowerOfTwo(int n) { return pow(2, ceil(log2(n))); }
NextPowerOfTwo(n) == Pow2(CeilLog2(n))

\* int m = nextPowerOfTwo(bufflen * 2 - 1)
ConvLen(n) == NextPowerOfTwo(n * 2 - 1)

\* B[m - k]
MirrorIndex(len, idx) == len - idx

\* a write into a C array; a write outside the allocation is not kept
WriteAt(s, idx, v) == [j \in 1..Len(s) |-> IF j = idx + 1 THEN v ELSE s[j]]

InitBluestein ==
    /\ pc = "idle"
    /\ argc = 0
    /\ sess = NoSession
    /\ decodeFailed = FALSE
    /\ rate = 0 /\ channels = 0 /\ buffer_size = 0 /\ capacity = 0
    /\ total_samples = 0 /\ samples = <<>> /\ num_samples = 0
    /\ delivered = 0
    /\ ret = 0 /\ exitCode = -1
    /\ leftChanelSamples = <<>> /\ i = 0 /\ hopsize = 0
    /\ in = <<>> /\ out = <<>> /\ freqArr = <<>>
    /\ hops = <<>> /\ writes = {} /\ acc = {}
    /\ bpc = "chirp"
    /\ bufflen \in 1..MaxLen
    /\ k = 0
    /\ m = 0
    /\ chirp = [j \in 1..bufflen |-> Zero]
    /\ A = <<>> /\ B = <<>>

mainVars == <<pc, argc, sess, decodeFailed, ret, exitCode, extractVars,
              analysisVars>>

\* one iteration of: chirp[k] = fromAngle(1, (-PI * k * k) / bufflen)
ChirpStep ==
    /\ bpc = "chirp"
    /\ k < bufflen
    /\ chirp' = WriteAt(chirp, k, FromAngle(1, -(k * k)))
    /\ k' = k + 1
    /\ UNCHANGED <<bpc, bufflen, m, A, B, mainVars>>

\* the chirp loop ends; m is computed, A and B are allocated and zeroed
Pad ==
    /\ bpc = "chirp"
    /\ ~(k < bufflen)
    /\ m' = ConvLen(bufflen)
    /\ A' = [j \in 1..m' |-> Zero]
    /\ B' = [j \in 1..m' |-> Zero]
    /\ k' = 0
    /\ bpc' = "fill"
    /\ UNCHANGED <<bufflen, chirp, mainVars>>

\* one iteration of: A[k] = mul(buff[k], chirp[k]);
\*                   B[k] = fromAngle(1, (PI * k * k) / bufflen)
FillStep ==
    /\ bpc = "fill"
    /\ k < bufflen
    /\ A' = WriteAt(A, k, Mul(Buff(k), chirp[k + 1]))
    /\ B' = WriteAt(B, k, FromAngle(1, k * k))
    /\ k' = k + 1
    /\ UNCHANGED <<bpc, bufflen, m, chirp, mainVars>>

\* the fill loop ends; the mirror loop starts at k = 1
FillDone ==
    /\ bpc = "fill"
    /\ ~(k < bufflen)
    /\ k' = 1
    /\ bpc' = "mirror"
    /\ UNCHANGED <<bufflen, m, chirp, A, B, mainVars>>

\* one iteration of: B[m - k] = (Complex){B[k].re, -B[k].im}
MirrorStep ==
    /\ bpc = "mirror"
    /\ k < bufflen
    /\ B' = WriteAt(B, MirrorIndex(m, k), Conj(B[k + 1]))
    /\ k' = k + 1
    /\ UNCHANGED <<bpc, bufflen, m, chirp, A, mainVars>>

\* the mirror loop ends and the function falls off its end
MirrorDone ==
    /\ bpc = "mirror"
    /\ ~(k < bufflen)
    /\ bpc' = "done"
    /\ UNCHANGED <<bufflen, k, m, chirp, A, B, mainVars>>

NextBluestein ==
    \/ ChirpStep
    \/ Pad
    \/ FillStep
    \/ FillDone
    \/ MirrorStep
    \/ MirrorDone

SpecBluestein == InitBluestein /\ [][NextBluestein]_vars

(***************************************************************************)
(* Properties.                                                             *)
(***************************************************************************)
\* the analysis stage has run to its end
Analysed == pc = "exit" /\ exitCode = 0

\* C1: in the decode loop, after every append the capacity is at least the
\* number of samples stored, whatever the block sizes and the initial
\* capacity rate * channels * 2.
C1_CapacityCoversCount ==
    pc \in {"read", "crashed"} => total_samples <= capacity

\* C2: an append that exceeds the capacity makes the capacity exactly twice
\* what it was, one that does not leaves it alone, and in both cases every
\* sample appended before keeps its value at its index.
C2_GrowthKeepsSamples ==
    [][(pc = "read" /\ pc' = "read") =>
         /\ capacity' = IF total_samples' > capacity
                          THEN 2 * capacity ELSE capacity
         /\ \A idx \in 0..(total_samples - 1) :
              ReadAt(samples', idx) = ReadAt(samples, idx)]_vars

\* Without an earlier overrun (total_samples <= capacity before the append)
\* the statement of C2 holds: it fails only after the overrun of C1.
GrowthKeepsSamplesInBuffer ==
    [][(pc = "read" /\ pc' = "read" /\ total_samples <= capacity) =>
         /\ capacity' = IF total_samples' > capacity
                          THEN 2 * capacity ELSE capacity
         /\ \A idx \in 0..(total_samples - 1) :
              ReadAt(samples', idx) = ReadAt(samples, idx)]_vars

\* C3: once a decoder call has failed, extract_mp3_samples returns non-zero,
\* main exits non-zero, and neither channel extraction nor the hop loop runs.
C3_DecodeFailureFatal ==
    decodeFailed =>
        /\ pc = "returned" => ret # 0
        /\ pc \notin {"left", "hop"}
        /\ pc = "exit" => exitCode # 0

\* C4: after channel extraction the mono sequence has floor(count / channels)
\* elements and element i is sample i * channels, for every channel count.
C4_ChannelExtraction ==
    (pc = "hop" \/ Analysed) =>
        /\ Len(leftChanelSamples) = num_samples \div channels
        /\ \A idx \in 0..(Len(leftChanelSamples) - 1) :
              leftChanelSamples[idx + 1] = ReadAt(samples, idx * channels)

\* For two channels the statement of C4 holds.
StereoExtraction == channels = 2 => C4_ChannelExtraction

\* C5: over a mono sequence of length L the hop loop hands exactly
\* floor(L / hopsize) windows to the transform, in increasing order, window
\* n (from 0) being mono samples [n * hopsize, n * hopsize + hopsize); the
\* trailing L mod hopsize samples are never read into a window.
C5_HopWindows ==
    (pc = "hop" \/ Analysed) =>
        LET L == Len(leftChanelSamples)
        IN  /\ i = Len(hops) * hopsize
            /\ Len(hops) <= L \div hopsize
            /\ Analysed => Len(hops) = L \div hopsize
            /\ \A n \in 1..Len(hops) :
                 /\ Len(hops[n]) = hopsize
                 /\ n * hopsize <= L
                 /\ \A j \in 1..hopsize :
                      hops[n][j] = leftChanelSamples[(n - 1) * hopsize + j]
            /\ \A a \in acc :
                 a.arr = "leftChanelSamples" =>
                     a.idx < (L \div hopsize) * hopsize

C5_Witness ==
    /\ Analysed
    /\ Len(hops) = 3
    /\ Len(leftChanelSamples) % hopsize # 0

\* C6: each hop writes floor(hopsize / 2) + 1 magnitudes, one per bin; no
\* two (hop, bin) pairs share a cell of freqArr, and the cell of (n, j)
\* still holds the magnitude of bin j of hop n after later hops have run.
C6_MagnitudeTable ==
    (pc = "hop" \/ Analysed) =>
        /\ \A n \in 1..Len(hops) :
             /\ Cardinality({w \in writes : w.hop = n - 1}) =
                    hopsize \div 2 + 1
             /\ \A j \in 0..(hopsize \div 2) :
                  \E w \in writes :
                      /\ w.hop = n - 1 /\ w.bin = j
                      /\ w.cell \in 0..(Len(freqArr) - 1)
                      /\ freqArr[w.cell + 1] =
                             Magnitude([win |-> hops[n], bin |-> j])
        /\ \A w1 \in writes, w2 \in writes : w1.cell = w2.cell => w1 = w2

C6_Witness ==
    /\ Analysed
    /\ Len(hops) >= 2
    /\ hopsize = 3

RECURSIVE IsPowerOfTwo(_)
IsPowerOfTwo(n) ==
    n = 1 \/ (n > 1 /\ n % 2 = 0 /\ IsPowerOfTwo(n \div 2))

\* C7: in bluesteinFFT the convolution length m is the smallest power of two
\* with m >= 2N - 1, A and B have m elements, and the two halves written
\* into B (B[k] and B[m - k]) do not overlap.
C7_ConvolutionLength ==
    bpc \in {"fill", "mirror", "done"} =>
        /\ IsPowerOfTwo(m)
        /\ m >= 2 * bufflen - 1
        /\ \A p \in 1..(m - 1) : IsPowerOfTwo(p) => p < 2 * bufflen - 1
        /\ Len(A) = m /\ Len(B) = m
        /\ bpc = "done" =>
             \A j \in 0..(m - 1) :
                /\ A[j + 1] = IF j < bufflen
                                THEN [amp |-> j + 2, num |-> -(j * j)]
                                ELSE Zero
                /\ B[j + 1] = IF j < bufflen THEN [amp |-> 1, num |-> j * j]
                              ELSE IF m - j < bufflen
                                THEN [amp |-> 1, num |-> -((m - j) * (m - j))]
                              ELSE Zero

C7_Witness ==
    /\ bpc = "done"
    /\ bufflen = 5
    /\ m = 16

\* C8: on every return of extract_mp3_samples after mpg123_init succeeded,
\* mpg123_exit was called exactly once, a created handle was deleted exactly
\* once and closed before that if it was opened, an allocated read block was
\* freed exactly once, and no decoder call was made after teardown.
C8_SessionTeardown ==
    /\ ~sess.late
    /\ (pc \in {"returned", "left", "hop", "exit"} /\ sess.lib # "uninit") =>
        /\ sess.lib = "exited" /\ sess.exits = 1
        /\ sess.mh = "null" => sess.deletes = 0 /\ sess.closes = 0
        /\ sess.mh # "null" =>
             /\ sess.mh = "deleted" /\ sess.deletes = 1
             /\ ~sess.deletedOpen
             /\ sess.closes = IF sess.opened THEN 1 ELSE 0
        /\ sess.buffer = "none" => sess.frees = 0
        /\ sess.buffer # "none" => sess.buffer = "freed" /\ sess.frees = 1

C8_Witness ==
    /\ pc = "returned"
    /\ ret = -1
    /\ sess.opened
    /\ sess.buffer = "none"
    /\ sess.exits = 1

\* C9: after a successful extract_mp3_samples the buffer is the in-order
\* concatenation of every block the decoder delivered, and num_samples is
\* the number of samples delivered, those handed back with the final
\* end-of-stream status included.
C9_BufferIsConcatenation ==
    (pc = "returned" /\ ret = 0 /\ ~decodeFailed) =>
        /\ num_samples = delivered
        /\ \A idx \in 0..(delivered - 1) : ReadAt(samples, idx) = idx + 1

\* the size the claim gives for each array of the analysis stage
Bound(arr) ==
    CASE arr = "samples" -> num_samples
      [] arr = "leftChanelSamples" -> num_samples \div 2
      [] arr = "freqArr" -> num_samples \div 2
      [] arr = "in" -> hopsize
      [] arr = "out" -> hopsize \div 2 + 1

=============================================================================
